---- MODULE Spec2Model ----
(***************************************************************************)
(* The chat endpoint of the wellbeing app: pages/api/chat.js (the handler  *)
(* with the deadline, the safety gate and the lenient extractor) and the   *)
(* older api/chat.js (no deadline, strict JSON.parse).                     *)
(*                                                                         *)
(* Strings are modelled at the granularity the code looks at them:         *)
(*   - the user's text as a sequence of runs, each a run of whitespace or  *)
(*     of other characters with its length (trim, /\s+/g and .length see   *)
(*     nothing else);                                                      *)
(*   - the model's text as a sequence of lexical tokens (fence, tag,       *)
(*     whitespace, prose, braces, member lists, atoms), which is what the  *)
(*     two regular expressions, the quote replacement and JSON.parse       *)
(*     distinguish.                                                        *)
(***************************************************************************)
EXTENDS Integers, Sequences, FiniteSets, TLC

\* ------------------------------------------------------------------------
\* Bounds of the model
\* ------------------------------------------------------------------------
MaxRuns == 3
MaxWrap == 2

\* Lengths a run of the user's text may have
RunLens == {1, 2, 1998}

\* ------------------------------------------------------------------------
\* The user's text: trim, whitespace collapse, length
\* ------------------------------------------------------------------------
MaxInputLen == 2000

WsRun(n) == [ws |-> TRUE, n |-> n]
WordRun(n) == [ws |-> FALSE, n |-> n]

RECURSIVE AltRuns(_, _)
\* Strings of exactly k runs, alternating, the first one whitespace iff w
AltRuns(k, w) ==
  IF k = 0 THEN {<<>>}
  ELSE {<<[ws |-> w, n |-> n]>> \o t : n \in RunLens, t \in AltRuns(k - 1, ~w)}

\* String.prototype.length
RECURSIVE StrLen(_)
StrLen(s) == IF s = <<>> THEN 0 ELSE Head(s).n + StrLen(Tail(s))

RECURSIVE TrimStart(_)
TrimStart(s) == IF s # <<>> /\ Head(s).ws THEN TrimStart(Tail(s)) ELSE s

RECURSIVE TrimEnd(_)
TrimEnd(s) ==
  IF s # <<>> /\ s[Len(s)].ws THEN TrimEnd(SubSeq(s, 1, Len(s) - 1)) ELSE s

\* String.prototype.trim
Trim(s) == TrimEnd(TrimStart(s))

\* .replace(/\s+/g, " "): every maximal whitespace run becomes one space
CollapseWs(s) == [i \in 1..Len(s) |-> IF s[i].ws THEN WsRun(1) ELSE s[i]]

\* JavaScript values of a body field
Undefined == [type |-> "undefined"]
Str(s) == [type |-> "string", runs |-> s]
IsString(v) == v.type = "string"

\* A faulty RawText: userMessage read first
RawTextUserMessageFirst(body) ==
  LET a == IF IsString(body.text) THEN body.text.runs ELSE <<>>
      b == IF IsString(body.userMessage) THEN body.userMessage.runs ELSE <<>>
  IN IF b # <<>> THEN b ELSE a

\* chat.js: (typeof body.text === "string" ? body.text : "") || (... userMessage ...)
RawText(body) ==
  LET a == IF IsString(body.text) THEN body.text.runs ELSE <<>>
      b == IF IsString(body.userMessage) THEN body.userMessage.runs ELSE <<>>
  IN IF a # <<>> THEN a ELSE b

\* A faulty UserText: neither trimmed nor collapsed
UserTextUntrimmed(body) ==
  LET a == IF IsString(body.text) THEN body.text.runs ELSE <<>>
      b == IF IsString(body.userMessage) THEN body.userMessage.runs ELSE <<>>
  IN IF a # <<>> THEN a ELSE b

\* chat.js: (raw || "").trim().replace(/\s+/g, " ")
UserText(body) == CollapseWs(Trim(RawText(body)))

\* api/chat.js: (typeof text === "string" && text.trim()) ||
\*              (typeof userMessage === "string" && userMessage.trim())
\* A falsy result (false or "") is the empty string here: only !userText reads it.
LegacyUserText(body) ==
  LET a == IF IsString(body.text) THEN Trim(body.text.runs) ELSE <<>>
      b == IF IsString(body.userMessage) THEN Trim(body.userMessage.runs) ELSE <<>>
  IN IF a # <<>> THEN a ELSE b

\* req.body || {}
BodyOf(r) == IF r.hasBody THEN r.body ELSE [text |-> Undefined, userMessage |-> Undefined]

\* ------------------------------------------------------------------------
\* The model's text and the values JSON.parse gives
\* ------------------------------------------------------------------------
\* Characters of a string literal's content.  "quot" is the ASCII double quote,
\* "apos" the ASCII single quote; the others are the typographic marks the
\* extractor rewrites.
DoubleMarks == {"ldquo", "rdquo", "dprime"}
SingleMarks == {"lsquo", "rsquo", "prime"}

\* Tokens of the model's text
Ws == [k |-> "ws"]
Fence == [k |-> "fence"]
JsonTag == [k |-> "json"]
Prose == [k |-> "prose"]
LBrace == [k |-> "lbrace"]
RBrace == [k |-> "rbrace"]
\* a member list  "key": value, ...  whose string literals are delimited by q
Members(q, obj) == [k |-> "members", q |-> q, obj |-> obj]
\* a string literal, a literal null/true/false/number, an array literal
StrTok(q, chars) == [k |-> "str", q |-> q, chars |-> chars]
Atom(lit) == [k |-> "atom", lit |-> lit]
ArrTok(n) == [k |-> "array", len |-> n]

\* JavaScript values
JNull == [type |-> "null"]
JBool(b) == [type |-> "boolean", b |-> b]
JNum(n) == [type |-> "number", num |-> n]
JStr(chars) == [type |-> "string", chars |-> chars]
JArr(n, props) == [type |-> "array", len |-> n, props |-> props]
JObj(fields) == [type |-> "object", fields |-> fields]
JText(toks) == [type |-> "string", toks |-> toks]
NoProps == [p \in {} |-> FALSE]

\* !v
Falsy(v) ==
  CASE v.type = "null" -> TRUE
    [] v.type = "undefined" -> TRUE
    [] v.type = "boolean" -> ~v.b
    [] v.type = "number" -> v.num = 0
    [] v.type = "string" -> v.chars = <<>>
    [] OTHER -> FALSE

RECURSIVE TrimStartToks(_)
TrimStartToks(s) == IF s # <<>> /\ Head(s).k = "ws" THEN TrimStartToks(Tail(s)) ELSE s

RECURSIVE TrimEndToks(_)
TrimEndToks(s) ==
  IF s # <<>> /\ s[Len(s)].k = "ws" THEN TrimEndToks(SubSeq(s, 1, Len(s) - 1)) ELSE s

\* text.trim()
TrimToks(s) == TrimEndToks(TrimStartToks(s))

\* .replace(/^```(?:json)?\s*/i, "")
StripLeadingFence(s) ==
  IF s # <<>> /\ Head(s).k = "fence"
  THEN LET a == Tail(s)
           b == IF a # <<>> /\ Head(a).k = "json" THEN Tail(a) ELSE a
       IN TrimStartToks(b)
  ELSE s

\* .replace(/```$/i, "")
StripTrailingFence(s) ==
  IF s # <<>> /\ s[Len(s)].k = "fence" THEN SubSeq(s, 1, Len(s) - 1) ELSE s

\* .replace(/[“”″]/g, '"').replace(/[‘’′]/g, "'")
\* on one character
QuoteChar(c) ==
  IF c \in DoubleMarks THEN "quot" ELSE IF c \in SingleMarks THEN "apos" ELSE c

QuoteChars(cs) == [i \in 1..Len(cs) |-> QuoteChar(cs[i])]

\* the same replacement on a token: delimiters and string contents alike
QuoteTok(t) ==
  CASE t.k = "members" ->
         Members(QuoteChar(t.q),
                 [f \in DOMAIN t.obj |->
                    IF f = "message_student" THEN QuoteChars(t.obj[f]) ELSE t.obj[f]])
    [] t.k = "str" -> StrTok(QuoteChar(t.q), QuoteChars(t.chars))
    [] OTHER -> t

NormalizeQuotes(s) == [i \in 1..Len(s) |-> QuoteTok(s[i])]

\* chat.js lines 63-68: the text JSON.parse is tried on
CleanText(toks) ==
  NormalizeQuotes(TrimToks(StripTrailingFence(StripLeadingFence(TrimToks(toks)))))

\* A string literal is well formed when delimited by ASCII double quotes and
\* holding no unescaped one
LiteralOk(q, chars) == q = "quot" /\ \A i \in 1..Len(chars) : chars[i] # "quot"

MembersOk(t) ==
  /\ t.q = "quot"
  /\ "message_student" \in DOMAIN t.obj => LiteralOk("quot", t.obj["message_student"])

AtomValue(lit) ==
  CASE lit = "null" -> JNull
    [] lit = "true" -> JBool(TRUE)
    [] lit = "false" -> JBool(FALSE)
    [] lit = "0" -> JNum(0)
    [] OTHER -> JNum(5)

SyntaxError == [ok |-> FALSE, value |-> JNull]
Parsed(v) == [ok |-> TRUE, value |-> v]

\* JSON.parse: one value, whitespace allowed around it and between its tokens
JSONparse(s) ==
  LET t == SelectSeq(s, LAMBDA x : x.k # "ws")
  IN CASE Len(t) = 1 /\ t[1].k = "atom" -> Parsed(AtomValue(t[1].lit))
       [] Len(t) = 1 /\ t[1].k = "array" -> Parsed(JArr(t[1].len, NoProps))
       [] Len(t) = 1 /\ t[1].k = "str" ->
            IF LiteralOk(t[1].q, t[1].chars) THEN Parsed(JStr(t[1].chars)) ELSE SyntaxError
       [] Len(t) = 2 /\ t[1].k = "lbrace" /\ t[2].k = "rbrace" -> Parsed(JObj(NoProps))
       [] Len(t) = 3 /\ t[1].k = "lbrace" /\ t[2].k = "members" /\ t[3].k = "rbrace" ->
            IF MembersOk(t[2]) THEN Parsed(JObj(t[2].obj)) ELSE SyntaxError
       [] OTHER -> SyntaxError

\* s.match(/\{[\s\S]*\}/): from the first "{" to the last "}"
BraceMatch(s) ==
  LET opens == {i \in 1..Len(s) : s[i].k = "lbrace"}
      closes == {i \in 1..Len(s) : s[i].k = "rbrace"}
      first == CHOOSE i \in opens : \A j \in opens : i <= j
      last == CHOOSE i \in closes : \A j \in closes : j <= i
  IN IF opens # {} /\ closes # {} /\ first < last
     THEN [found |-> TRUE, span |-> SubSeq(s, first, last)]
     ELSE [found |-> FALSE, span |-> <<>>]

coerceJsonFromModel(text) ==
  IF text.type # "string" THEN JNull
  ELSE LET s == CleanText(text.toks)
           direct == JSONparse(s)
           match == BraceMatch(s)
           rescue == JSONparse(match.span)
       IN IF direct.ok THEN direct.value
          ELSE IF match.found /\ rescue.ok THEN rescue.value
          ELSE JNull

\* ------------------------------------------------------------------------
\* The replies
\* ------------------------------------------------------------------------
\* chat.js lines 148-158
CrisisReply ==
  [message_student |-> <<"I want to help, but I can't respond to that directly ... call or text 988 ...">>,
   feeling_label |-> "unsure",
   skill_tag |-> <<>>,
   tip_summary |-> "Reach out to a trusted adult; consider crisis support.",
   next_step_prompt |-> "Tell a counselor, teacher, parent or guardian what's going on.",
   resource_suggestion |-> "U.S. Suicide & Crisis Lifeline: 988",
   escalation |-> "crisis-988",
   crisisFlag |-> TRUE]

\* A faulty FallbackReply: a field left out
FallbackReplyNoTip ==
  [message_student |-> <<"I want to help, but I couldn't process that. Could you say it a different way?">>,
   feeling_label |-> "unsure",
   skill_tag |-> <<>>,
   next_step_prompt |-> "",
   resource_suggestion |-> "",
   escalation |-> "none"]

\* chat.js lines 173-182
FallbackReply ==
  [message_student |-> <<"I want to help, but I couldn't process that. Could you say it a different way?">>,
   feeling_label |-> "unsure",
   skill_tag |-> <<>>,
   tip_summary |-> "",
   next_step_prompt |-> "",
   resource_suggestion |-> "",
   escalation |-> "none"]

\* api/chat.js lines 134-142: the raw text becomes the message (its tokens' kinds)
LegacyFallbackReply(toks) ==
  [FallbackReply EXCEPT !.message_student = [i \in 1..Len(toks) |-> toks[i].k]]

ErrorBody(msg) == JObj([error |-> msg])

\* parsed.escalation === "crisis-988", for a parsed that is not null
IsCrisis(parsed) ==
  /\ parsed.type = "object"
  /\ "escalation" \in DOMAIN parsed.fields
  /\ parsed.fields["escalation"] = "crisis-988"

\* parsed.crisisFlag = flag.  Reading or writing a property of null throws; writing
\* one on a primitive throws in strict code and does nothing otherwise.
AssignCrisisFlag(parsed, flag, strictCode) ==
  CASE parsed.type = "object" ->
         [threw |-> FALSE,
          value |-> JObj([f \in DOMAIN parsed.fields \cup {"crisisFlag"} |->
                            IF f = "crisisFlag" THEN flag ELSE parsed.fields[f]])]
    [] parsed.type = "array" ->
         [threw |-> FALSE,
          value |-> JArr(parsed.len, [f \in {"crisisFlag"} |-> flag])]
    [] parsed.type = "null" -> [threw |-> TRUE, value |-> parsed]
    [] OTHER -> [threw |-> strictCode, value |-> parsed]

\* res.json(v): JSON.stringify keeps an object's own fields and an array's elements;
\* named properties set on an array are not serialised
ToJSON(v) == IF v.type = "array" THEN JArr(v.len, NoProps) ELSE v

NoResponse == [sent |-> 0, status |-> 0, body |-> Undefined, headers |-> {}]

\* chat.js lines 53-57
send(rs, status, json) ==
  [sent |-> rs.sent + 1,
   status |-> status,
   body |-> ToJSON(json),
   headers |-> rs.headers \cup {"Content-Type", "Cache-Control"}]

\* api/chat.js: res.status(status).json(json)
StatusJson(rs, status, json) ==
  [sent |-> rs.sent + 1, status |-> status, body |-> ToJSON(json), headers |-> rs.headers]

\* res.setHeader("Allow", "POST")
SetAllow(rs) == [rs EXCEPT !.headers = @ \cup {"Allow"}]

\* r.ok
Ok(status) == status >= 200 /\ status <= 299

NoUpstream == [status |-> 0, ok |-> FALSE]
NoData == [received |-> FALSE, errorMessage |-> "", blockReason |-> "", text |-> Undefined]

\* What the handler reads of the upstream body: data?.error?.message,
\* data?.promptFeedback?.blockReason and data?.candidates?.[0]?.content?.parts?.[0]?.text.
\* "" stands for a falsy or absent string: the code only tests these for truth.
Data(msg, block, text) ==
  [received |-> TRUE, errorMessage |-> msg, blockReason |-> block, text |-> text]

\* data?.error?.message || "Upstream error"
UpstreamMsg(d) == IF d.errorMessage # "" THEN d.errorMessage ELSE "Upstream error"

\* DEV ? `Upstream ${r.status}: ${msg}` : "Upstream error"
UpstreamErrorText(dev, status, msg) ==
  IF dev THEN "Upstream " \o ToString(status) \o ": " \o msg ELSE "Upstream error"

\* ------------------------------------------------------------------------
\* The deadline timer: setTimeout(() => controller.abort(), 15000), clearTimeout
\* ------------------------------------------------------------------------
NoTimer == [armed |-> FALSE, pending |-> FALSE, cleared |-> FALSE]
SetTimeout == [armed |-> TRUE, pending |-> TRUE, cleared |-> FALSE]

\* A faulty ClearTimeout: the timer left running
ClearTimeoutForgotten(t) == t

\* clearTimeout(timeout)
ClearTimeout(t) == [t EXCEPT !.pending = FALSE, !.cleared = TRUE]

\* ------------------------------------------------------------------------
\* State
\* ------------------------------------------------------------------------
VARIABLES
  deployed,     \* which file serves /api/chat: "pages" (pages/api/chat.js) or "legacy" (api/chat.js)
  strict,       \* whether the deployed file runs as strict code
  API_KEY,      \* process.env.GEMINI_API_KEY || process.env.GOOGLE_API_KEY; "" when unset
  DEV,          \* process.env.NODE_ENV !== "production"
  req,          \* the inbound request
  pc,           \* where the handler is: "start", "fetch" (await fetch), "json" (await r.json()), "done"
  userText,     \* the handler's local userText
  timeout,      \* the deadline timer
  aborted,      \* controller.signal.aborted
  r,            \* the upstream response, once fetch has resolved
  data,         \* the upstream body, once r.json() has resolved
  res,          \* the response: how often it was sent, status, body, headers
  fetchCalls,   \* calls of fetch
  coerceCalls   \* calls of coerceJsonFromModel

vars == <<deployed, strict, API_KEY, DEV, req, pc, userText, timeout, aborted, r, data,
          res, fetchCalls, coerceCalls>>

config == <<deployed, strict, API_KEY, DEV, req>>

\* ------------------------------------------------------------------------
\* pages/api/chat.js
\* ------------------------------------------------------------------------
\* A faulty Reply2xx: the safety gate consulted only when extraction gave nothing
Reply2xxGateAfterExtract(rs, d) ==
  LET model == coerceJsonFromModel(d.text)
      set == AssignCrisisFlag(model, IsCrisis(model), TRUE)
  IN IF d.text.type = "string" /\ ~Falsy(model)
     THEN [res |-> IF set.threw THEN send(rs, 500, ErrorBody("Server error"))
                   ELSE send(rs, 200, set.value),
           coerced |-> 1]
     ELSE IF d.blockReason # ""
     THEN [res |-> send(rs, 200, JObj(CrisisReply)), coerced |-> 1]
     ELSE [res |-> send(rs, 502, ErrorBody("Invalid upstream response shape")),
           coerced |-> 1]

\* Lines 146-186, after the upstream body d arrived with a 2xx status: the safety
\* gate, the shape check, the extractor, the fallback and the crisis flag.
\* The module is an ES module, hence strict code.
Reply2xx(rs, d) ==
  IF d.blockReason # "" THEN [res |-> send(rs, 200, JObj(CrisisReply)), coerced |-> 0]
  ELSE IF d.text.type # "string"
  THEN [res |-> send(rs, 502, ErrorBody("Invalid upstream response shape")), coerced |-> 0]
  ELSE LET model == coerceJsonFromModel(d.text)
           parsed == IF Falsy(model) THEN JObj(FallbackReply) ELSE model
           set == AssignCrisisFlag(parsed, IsCrisis(parsed), TRUE)
       IN [res |-> IF set.threw THEN send(rs, 500, ErrorBody("Server error"))
                   ELSE send(rs, 200, set.value),
           coerced |-> 1]

\* Lines 82-127: from the call of the handler to the first await
handler ==
  /\ deployed = "pages"
  /\ pc = "start"
  /\ LET t == UserText(BodyOf(req))
     IN IF req.method # "POST"
        THEN /\ res' = send(SetAllow(res), 405, ErrorBody("Method not allowed"))
             /\ pc' = "done"
             /\ UNCHANGED <<userText, timeout, fetchCalls>>
        ELSE IF API_KEY = ""
        THEN /\ res' = send(res, 500, ErrorBody("Missing GEMINI_API_KEY on server"))
             /\ pc' = "done"
             /\ UNCHANGED <<userText, timeout, fetchCalls>>
        ELSE IF t = <<>>
        THEN /\ res' = send(res, 400, ErrorBody("Missing 'text' (or 'userMessage')"))
             /\ pc' = "done"
             /\ userText' = t
             /\ UNCHANGED <<timeout, fetchCalls>>
        ELSE IF StrLen(t) > MaxInputLen
        THEN /\ res' = send(res, 413, ErrorBody("Input too long"))
             /\ pc' = "done"
             /\ userText' = t
             /\ UNCHANGED <<timeout, fetchCalls>>
        ELSE /\ userText' = t
             /\ timeout' = SetTimeout
             /\ fetchCalls' = fetchCalls + 1
             /\ pc' = "fetch"
             /\ UNCHANGED res
  /\ UNCHANGED <<config, aborted, r, data, coerceCalls>>

\* A faulty FetchFulfilled: fetch called without the signal, so an abort does not
\* stop it
FetchFulfilledNoSignal(status) ==
  /\ deployed = "pages"
  /\ pc = "fetch"
  /\ r' = [status |-> status, ok |-> Ok(status)]
  /\ pc' = "json"
  /\ UNCHANGED <<config, userText, timeout, aborted, data, res, fetchCalls, coerceCalls>>

\* Line 122 resolves with a response of the given status; line 129 starts reading it
FetchFulfilled(status) ==
  /\ deployed = "pages"
  /\ pc = "fetch"
  /\ ~aborted
  /\ r' = [status |-> status, ok |-> Ok(status)]
  /\ pc' = "json"
  /\ UNCHANGED <<config, userText, timeout, aborted, data, res, fetchCalls, coerceCalls>>

\* A faulty FetchRejected: the fetch tried again after a transport failure
FetchRejectedRetry ==
  /\ deployed = "pages"
  /\ pc = "fetch"
  /\ ~aborted
  /\ fetchCalls' = fetchCalls + 1
  /\ UNCHANGED <<config, pc, userText, timeout, aborted, r, data, res, coerceCalls>>

\* Line 122 rejects with a transport failure: lines 137-144
FetchRejected ==
  /\ deployed = "pages"
  /\ pc = "fetch"
  /\ ~aborted
  /\ timeout' = ClearTimeout(timeout)
  /\ res' = send(res, 504, ErrorBody("Upstream fetch failed"))
  /\ pc' = "done"
  /\ UNCHANGED <<config, userText, aborted, r, data, fetchCalls, coerceCalls>>

\* Line 118: the timer's callback runs controller.abort()
TimeoutFired ==
  /\ timeout.pending
  /\ timeout' = [timeout EXCEPT !.pending = FALSE]
  /\ aborted' = TRUE
  /\ UNCHANGED <<config, pc, userText, r, data, res, fetchCalls, coerceCalls>>

\* The aborted signal rejects the pending await (line 122 or 129) with an
\* AbortError: lines 137-144
AbortRejected ==
  /\ deployed = "pages"
  /\ pc \in {"fetch", "json"}
  /\ aborted
  /\ timeout' = ClearTimeout(timeout)
  /\ res' = send(res, 504, ErrorBody("Upstream timeout"))
  /\ pc' = "done"
  /\ UNCHANGED <<config, userText, aborted, r, data, fetchCalls, coerceCalls>>

\* Line 129 resolves with a body d of D: lines 131-136, 142-144 and 146-186
JsonFulfilled(D) ==
  /\ deployed = "pages"
  /\ pc = "json"
  /\ ~aborted
  /\ timeout' = ClearTimeout(timeout)
  /\ pc' = "done"
  /\ \E d \in D :
       /\ data' = d
       /\ IF ~r.ok
          THEN /\ res' = send(res, r.status,
                              ErrorBody(UpstreamErrorText(DEV, r.status, UpstreamMsg(d))))
               /\ UNCHANGED coerceCalls
          ELSE /\ res' = Reply2xx(res, d).res
               /\ coerceCalls' = coerceCalls + Reply2xx(res, d).coerced
  /\ UNCHANGED <<config, userText, aborted, r, fetchCalls>>

\* Line 129 rejects because the body is not JSON: lines 137-144
JsonRejected ==
  /\ deployed = "pages"
  /\ pc = "json"
  /\ ~aborted
  /\ timeout' = ClearTimeout(timeout)
  /\ res' = send(res, 504, ErrorBody("Upstream fetch failed"))
  /\ pc' = "done"
  /\ UNCHANGED <<config, userText, aborted, r, data, fetchCalls, coerceCalls>>

\* ------------------------------------------------------------------------
\* api/chat.js (the older variant: no deadline, no safety gate, plain JSON.parse)
\* ------------------------------------------------------------------------
\* Lines 123-148, after the upstream body d arrived with a 2xx status
LegacyReply2xx(rs, d, strictCode) ==
  IF d.text.type # "string"
  THEN StatusJson(rs, 502, ErrorBody("Invalid upstream response shape"))
  ELSE LET direct == JSONparse(d.text.toks)
           parsed == IF direct.ok THEN direct.value
                     ELSE JObj(LegacyFallbackReply(d.text.toks))
           set == AssignCrisisFlag(parsed, IsCrisis(parsed), strictCode)
       IN IF set.threw THEN StatusJson(rs, 500, ErrorBody("Server error"))
          ELSE StatusJson(rs, 200, set.value)

\* Lines 2-113: from the call of the handler to the first await
legacyHandler ==
  /\ deployed = "legacy"
  /\ pc = "start"
  /\ LET t == LegacyUserText(BodyOf(req))
     IN IF req.method # "POST"
        THEN /\ res' = StatusJson(SetAllow(res), 405, ErrorBody("Method not allowed"))
             /\ pc' = "done"
             /\ UNCHANGED <<userText, fetchCalls>>
        ELSE IF t = <<>>
        THEN /\ res' = StatusJson(res, 400, ErrorBody("Missing 'text' (or 'userMessage')"))
             /\ pc' = "done"
             /\ userText' = t
             /\ UNCHANGED fetchCalls
        ELSE IF StrLen(t) > MaxInputLen
        THEN /\ res' = StatusJson(res, 413, ErrorBody("Input too long"))
             /\ pc' = "done"
             /\ userText' = t
             /\ UNCHANGED fetchCalls
        ELSE IF API_KEY = ""
        THEN /\ res' = StatusJson(res, 500, ErrorBody("Missing GEMINI_API_KEY on server"))
             /\ pc' = "done"
             /\ userText' = t
             /\ UNCHANGED fetchCalls
        ELSE /\ userText' = t
             /\ fetchCalls' = fetchCalls + 1
             /\ pc' = "fetch"
             /\ UNCHANGED res
  /\ UNCHANGED <<config, timeout, aborted, r, data, coerceCalls>>

\* Line 109 resolves; line 115 starts reading the body
LegacyFetchFulfilled(status) ==
  /\ deployed = "legacy"
  /\ pc = "fetch"
  /\ r' = [status |-> status, ok |-> Ok(status)]
  /\ pc' = "json"
  /\ UNCHANGED <<config, userText, timeout, aborted, data, res, fetchCalls, coerceCalls>>

\* Line 109 rejects: the outer catch, lines 149-152
LegacyFetchRejected ==
  /\ deployed = "legacy"
  /\ pc = "fetch"
  /\ res' = StatusJson(res, 500, ErrorBody("Server error"))
  /\ pc' = "done"
  /\ UNCHANGED <<config, userText, timeout, aborted, r, data, fetchCalls, coerceCalls>>

\* Line 115 resolves with a body d of D: lines 117-148
LegacyJsonFulfilled(D) ==
  /\ deployed = "legacy"
  /\ pc = "json"
  /\ pc' = "done"
  /\ \E d \in D :
       /\ data' = d
       /\ res' = IF ~r.ok THEN StatusJson(res, r.status, ErrorBody(UpstreamMsg(d)))
                 ELSE LegacyReply2xx(res, d, strict)
  /\ UNCHANGED <<config, userText, timeout, aborted, r, fetchCalls, coerceCalls>>

\* Line 115 rejects because the body is not JSON: the outer catch, lines 149-152
LegacyJsonRejected ==
  /\ deployed = "legacy"
  /\ pc = "json"
  /\ res' = StatusJson(res, 500, ErrorBody("Server error"))
  /\ pc' = "done"
  /\ UNCHANGED <<config, userText, timeout, aborted, r, data, fetchCalls, coerceCalls>>

\* ------------------------------------------------------------------------
\* Inputs
\* ------------------------------------------------------------------------
\* Strings of at most MaxRuns runs
Strings == UNION {AltRuns(k, w) : k \in 0..MaxRuns, w \in BOOLEAN}

\* The second field is drawn from the strings of at most one run
ShortStrings == UNION {AltRuns(k, w) : k \in 0..1, w \in BOOLEAN}

Bodies ==
  [text : {Undefined} \cup {Str(s) : s \in Strings},
   userMessage : {Undefined} \cup {Str(s) : s \in ShortStrings}]

NoBody == [text |-> Undefined, userMessage |-> Undefined]

Requests ==
  {[method |-> m, hasBody |-> TRUE, body |-> b] : m \in {"GET", "POST"}, b \in Bodies}
    \cup {[method |-> "POST", hasBody |-> FALSE, body |-> NoBody]}

\* A request that passes validation
HelloRequest ==
  [method |-> "POST", hasBody |-> TRUE,
   body |-> [text |-> Str(<<WordRun(2)>>), userMessage |-> Undefined]]

\* Statuses the completion service answers with
UpstreamStatuses == {200, 429, 503}

\* Objects the model may write
Reply(esc, msg) ==
  [message_student |-> msg,
   feeling_label |-> "calm",
   skill_tag |-> <<"breathe">>,
   tip_summary |-> "t",
   next_step_prompt |-> "n",
   escalation |-> esc]

WithFlag(obj, flag) ==
  [f \in DOMAIN obj \cup {"crisisFlag"} |-> IF f = "crisisFlag" THEN flag ELSE obj[f]]

Plain == <<"a">>

ModelObjects ==
  {Reply(e, Plain) : e \in {"none", "encourage-counselor", "crisis-988"}}
    \cup {Reply("none", <<"ldquo", "a", "rdquo">>), Reply("none", <<"a", "rsquo", "a">>)}
    \cup {WithFlag(Reply("none", Plain), TRUE), WithFlag(Reply("crisis-988", Plain), FALSE)}
    \cup {[escalation |-> "crisis-988"], [message_student |-> Plain]}

Braced(q, obj) == <<LBrace, Members(q, obj), RBrace>>

\* What the model may write where a JSON object was asked for
Cores ==
  {Braced("quot", o) : o \in ModelObjects}
    \cup {Braced("ldquo", Reply("none", Plain)), Braced("lsquo", Reply("none", Plain))}
    \cup {<<LBrace, RBrace>>, <<LBrace, Members("quot", Reply("crisis-988", Plain))>>}
    \cup {<<Atom(a)>> : a \in {"null", "true", "false", "0", "5"}}
    \cup {<<StrTok("quot", Plain)>>, <<StrTok("quot", <<>>)>>, <<StrTok("ldquo", Plain)>>}
    \cup {<<ArrTok(0)>>, <<ArrTok(1)>>, <<Prose>>, <<>>}

RECURSIVE SeqsUpTo(_, _)
SeqsUpTo(S, n) ==
  IF n = 0 THEN {<<>>}
  ELSE SeqsUpTo(S, n - 1) \cup {<<x>> \o t : x \in S, t \in {u \in SeqsUpTo(S, n - 1) : Len(u) = n - 1}}

\* The two texts of the specification's examples
FencedExample ==
  <<Fence, JsonTag, Ws>> \o Braced("quot", Reply("none", Plain)) \o <<Ws, Fence>>
ProseExample ==
  <<Prose, Ws>> \o Braced("quot", Reply("encourage-counselor", Plain)) \o <<Ws, Prose>>

\* What may precede and follow it
Prefixes == SeqsUpTo({Ws, Fence, JsonTag, Prose, LBrace}, MaxWrap) \cup {<<Fence, JsonTag, Ws>>}
Suffixes == SeqsUpTo({Ws, Fence, Prose, RBrace}, MaxWrap)

WideTexts == {p \o c \o q : p \in Prefixes, c \in Cores, q \in Suffixes}

Texts ==
  {FencedExample, ProseExample,
   Braced("quot", Reply("crisis-988", Plain)),
   Braced("quot", WithFlag(Reply("none", Plain), TRUE)),
   Braced("quot", [message_student |-> Plain]),
   <<Fence, Ws>> \o Braced("quot", Reply("none", <<"ldquo", "a", "rdquo">>)) \o <<Ws, Fence>>,
   <<LBrace, RBrace>>,
   <<Prose>>,
   <<StrTok("quot", Plain)>>,
   <<ArrTok(1)>>,
   <<Atom("null")>>,
   <<Atom("5")>>}

Shapes ==
  {Data("", "", Undefined), Data("", "", JNum(5)), Data("Quota exceeded", "", Undefined),
   Data("", "SAFETY", Undefined), Data("Quota exceeded", "SAFETY", Undefined)}

Datas ==
  {Data("", "", JText(t)) : t \in Texts}
    \cup {Data("", "SAFETY", JText(Braced("quot", Reply("none", Plain))))}
    \cup Shapes

ExtractDatas ==
  {Data("", b, JText(t)) : b \in {"", "SAFETY"}, t \in WideTexts} \cup Shapes

\* ------------------------------------------------------------------------
\* Specifications
\* ------------------------------------------------------------------------
Fresh ==
  /\ pc = "start"
  /\ userText = <<>>
  /\ timeout = NoTimer
  /\ aborted = FALSE
  /\ r = NoUpstream
  /\ data = NoData
  /\ res = NoResponse
  /\ fetchCalls = 0
  /\ coerceCalls = 0

Deployments ==
  /\ deployed \in {"pages", "legacy"}
  /\ strict \in BOOLEAN
  /\ deployed = "pages" => strict
  /\ API_KEY \in {"", "key"}
  /\ DEV \in BOOLEAN

Init ==
  /\ Deployments
  /\ req \in Requests
  /\ Fresh

PagesSteps(D) ==
  \/ handler
  \/ \E status \in UpstreamStatuses : FetchFulfilled(status)
  \/ FetchRejected
  \/ TimeoutFired
  \/ AbortRejected
  \/ JsonFulfilled(D)
  \/ JsonRejected

LegacySteps(D) ==
  \/ legacyHandler
  \/ \E status \in UpstreamStatuses : LegacyFetchFulfilled(status)
  \/ LegacyFetchRejected
  \/ LegacyJsonFulfilled(D)
  \/ LegacyJsonRejected

Next == PagesSteps(Datas) \/ LegacySteps(Datas)

Spec == Init /\ [][Next]_vars

\* pages/api/chat.js alone, one valid request, every text of the bounded grammar
InitExtract ==
  /\ deployed = "pages"
  /\ strict = TRUE
  /\ API_KEY = "key"
  /\ DEV \in BOOLEAN
  /\ req = HelloRequest
  /\ Fresh

NextExtract == PagesSteps(ExtractDatas)

ExtractSpec == InitExtract /\ [][NextExtract]_vars

\* One valid and several invalid requests, for the specification with fairness
LiveRequests ==
  {HelloRequest,
   [HelloRequest EXCEPT !.method = "GET"],
   [HelloRequest EXCEPT !.body.text = Str(<<WsRun(2)>>)],
   [HelloRequest EXCEPT !.body.text = Str(<<WordRun(1998), WsRun(1), WordRun(2)>>)],
   [HelloRequest EXCEPT !.body.text = Undefined, !.body.userMessage = Str(<<WordRun(1)>>)],
   [method |-> "POST", hasBody |-> FALSE, body |-> NoBody]}

InitLive ==
  /\ Deployments
  /\ req \in LiveRequests
  /\ Fresh

\* The runtime runs a called handler, a due timer callback and the continuation of
\* a rejected await; nothing makes the completion service answer.
LiveSpec ==
  /\ InitLive
  /\ [][Next]_vars
  /\ WF_vars(handler)
  /\ WF_vars(legacyHandler)
  /\ WF_vars(TimeoutFired)
  /\ WF_vars(AbortRejected)

\* ------------------------------------------------------------------------
\* Vocabulary of the properties
\* ------------------------------------------------------------------------
RequiredFields ==
  {"message_student", "feeling_label", "skill_tag", "tip_summary", "next_step_prompt",
   "escalation", "crisisFlag"}

Responded == res.sent > 0
IsObject(v) == v.type = "object"
HasField(v, f) == IsObject(v) /\ f \in DOMAIN v.fields
Complete(v) == IsObject(v) /\ RequiredFields \subseteq DOMAIN v.fields

\* The strings the request carries under either key
Candidates(b) == {v.runs : v \in {w \in {b.text, b.userMessage} : IsString(w)}}
Norm(s) == CollapseWs(Trim(s))
\* Whichever key is read, the text is empty / is 1..2000 long / is longer
NoText(b) == \A s \in Candidates(b) : Norm(s) = <<>>
TextWithin(b) ==
  /\ Candidates(b) # {}
  /\ \A s \in Candidates(b) : StrLen(Norm(s)) >= 1 /\ StrLen(Norm(s)) <= 2000
TextTooLong(b) ==
  /\ Candidates(b) # {}
  /\ \A s \in Candidates(b) : StrLen(Norm(s)) > 2000

\* The upstream answered 2xx with a body that has no block reason and a string text
GotText ==
  /\ data.received
  /\ r.ok
  /\ data.blockReason = ""
  /\ data.text.type = "string"

\* ------------------------------------------------------------------------
\* C1
\* ------------------------------------------------------------------------
\* C1: every body sent with status 200 has a crisisFlag, and it is true exactly
\* when the body's escalation is "crisis-988", whatever the model's text parsed to.
C1_CrisisFlagIffEscalation ==
  (Responded /\ res.status = 200) =>
    /\ HasField(res.body, "crisisFlag")
    /\ res.body.fields["crisisFlag"] =
         (HasField(res.body, "escalation") /\ res.body.fields["escalation"] = "crisis-988")

\* ------------------------------------------------------------------------
\* C2
\* ------------------------------------------------------------------------
\* The text holds nothing JSON could be parsed from: prose, fences, whitespace
NoJson(t) == \A i \in 1..Len(t) : t[i].k \in {"ws", "fence", "json", "prose"}

\* The text holds the object o, written with ASCII quotes, bare or inside a fence
\* or prose that has no brace of its own
Wraps(t, o) ==
  \E i \in 1..Len(t) :
    /\ i + 2 <= Len(t)
    /\ SubSeq(t, i, i + 2) = <<LBrace, [k |-> "members", q |-> "quot", obj |-> o], RBrace>>
    /\ \A j \in 1..Len(t) : (j < i \/ j > i + 2) => t[j].k \in {"ws", "fence", "json", "prose"}

\* An object with the six fields the model is asked for, its message free of
\* quotation marks of any kind
PlainComplete(o) ==
  /\ RequiredFields \ {"crisisFlag"} \subseteq DOMAIN o
  /\ \A i \in 1..Len(o["message_student"]) : o["message_student"][i] = "a"

HoldsPlainComplete(t) ==
  \E i \in 1..Len(t) : t[i].k = "members" /\ PlainComplete(t[i].obj) /\ Wraps(t, t[i].obj)

\* pages/api/chat.js, credential configured, answered a POST with a text of 1..2000
ValidPost ==
  /\ deployed = "pages"
  /\ API_KEY # ""
  /\ Responded
  /\ req.method = "POST"
  /\ TextWithin(BodyOf(req))

NotAnObject(t) ==
  \/ NoJson(t)
  \/ LET u == SelectSeq(t, LAMBDA x : x.k # "ws")
     IN Len(u) = 1 /\ u[1].k \in {"str", "atom", "array"}

\* C5: a 2xx answer whose text is not a JSON object in any recoverable form is
\* answered 200 with the fixed fallback reply, crisisFlag false.
C5_NonObjectGetsFallback ==
  (deployed = "pages" /\ Responded /\ GotText /\ NotAnObject(data.text.toks)) =>
    /\ res.status = 200
    /\ res.body = JObj([f \in DOMAIN FallbackReply \cup {"crisisFlag"} |->
                          IF f = "crisisFlag" THEN FALSE ELSE FallbackReply[f]])

\* ------------------------------------------------------------------------
\* C6
\* ------------------------------------------------------------------------
\* C6 as stated: in every configuration a POST without text is answered 400 and
\* one whose normalized text is longer than 2000 characters is answered 413.
C6_ValidationStatus ==
  (Responded /\ req.method = "POST") =>
    /\ NoText(BodyOf(req)) => res.status = 400
    /\ TextTooLong(BodyOf(req)) => res.status = 413

\* C6 as amended: the same, for pages/api/chat.js only when the credential is
\* configured (it answers 500 for a missing credential before it reads the text);
\* api/chat.js validates first and so answers 400 and 413 in every configuration.
C6_ValidationWithCredential ==
  (Responded /\ req.method = "POST" /\ (deployed = "pages" => API_KEY # "")) =>
    /\ NoText(BodyOf(req)) => res.status = 400
    /\ TextTooLong(BodyOf(req)) => res.status = 413

\* A text of 2001 characters after the collapse of a two-character gap, refused
C6_Witness ==
  /\ Responded
  /\ deployed = "pages"
  /\ TextTooLong(BodyOf(req))
  /\ StrLen(userText) = 2001
  /\ StrLen(RawText(BodyOf(req))) > 2001
  /\ res.status = 413

\* ------------------------------------------------------------------------
\* C7
\* ------------------------------------------------------------------------
\* C7: a call never fetches twice, and every call that got past validation, however
\* it ended (HTTP error, timeout, transport failure, bad shape, fallback), fetched
\* exactly once.
C7_SingleFetch ==
  /\ fetchCalls <= 1
  /\ pc \in {"fetch", "json"} => fetchCalls = 1
  /\ (Responded /\ (r.status # 0 \/ aborted)) => fetchCalls = 1
  /\ (Responded /\ res.status \notin {400, 405, 413, 500}) => fetchCalls = 1

\* A transport failure answered without a second fetch
C7_Witness ==
  /\ Responded
  /\ deployed = "pages"
  /\ ~aborted
  /\ r.status = 0
  /\ res.status = 504
  /\ fetchCalls = 1

\* ------------------------------------------------------------------------
\* C9
\* ------------------------------------------------------------------------
\* The handler has computed userText
Normalized ==
  /\ pc # "start"
  /\ req.method = "POST"
  /\ deployed = "pages" => API_KEY # ""

NormAs(s) == IF deployed = "pages" THEN CollapseWs(Trim(s)) ELSE Trim(s)

TextField == BodyOf(req).text
OtherField == BodyOf(req).userMessage

\* C9 as stated: whenever body.text is a string, even an empty one, the text is
\* taken from it alone; so text "" with a non-empty userMessage is answered 400.
C9_TextFieldFirst ==
  Normalized =>
    /\ IsString(TextField) => userText = NormAs(TextField.runs)
    /\ (/\ TextField = Str(<<>>)
        /\ IsString(OtherField)
        /\ Trim(OtherField.runs) # <<>>
        /\ Responded) => res.status = 400

\* C9 as amended: the text is taken from body.text alone whenever body.text is a
\* string that is not empty after trimming; body.userMessage is read when body.text
\* is not a string or is the empty string (in api/chat.js also when it is only
\* whitespace; in pages/api/chat.js a whitespace-only body.text is still taken, and
\* refused with 400); so text "" with a non-empty userMessage is not answered 400.
C9_NonEmptyTextFirst ==
  Normalized =>
    /\ (IsString(TextField) /\ Trim(TextField.runs) # <<>>) =>
         userText = NormAs(TextField.runs)
    /\ (~IsString(TextField) \/ TextField.runs = <<>>) =>
         userText = (IF IsString(OtherField) THEN NormAs(OtherField.runs) ELSE <<>>)
    /\ (IsString(TextField) /\ TextField.runs # <<>> /\ Trim(TextField.runs) = <<>>) =>
         IF deployed = "pages"
         THEN userText = <<>> /\ res.status = 400
         ELSE userText = (IF IsString(OtherField) THEN NormAs(OtherField.runs) ELSE <<>>)
    /\ (/\ TextField = Str(<<>>)
        /\ IsString(OtherField)
        /\ Trim(OtherField.runs) # <<>>) => res.status # 400

\* text "" and a userMessage of one word: the word is forwarded
C9_Witness ==
  /\ Normalized
  /\ TextField = Str(<<>>)
  /\ IsString(OtherField)
  /\ userText = Trim(OtherField.runs)
  /\ userText # <<>>
  /\ Responded
  /\ res.status = 200

\* ------------------------------------------------------------------------
\* C4
\* ------------------------------------------------------------------------
Blocked == deployed = "pages" /\ Responded /\ data.received /\ data.blockReason # ""

CrisisAnswer ==
  /\ res.status = 200
  /\ res.body = JObj(CrisisReply)
  /\ res.body.fields["escalation"] = "crisis-988"
  /\ res.body.fields["crisisFlag"] = TRUE
  /\ coerceCalls = 0

\* C4 as stated: an upstream body with a block reason is answered 200 with the
\* fixed crisis object, the extractor never called, whatever the upstream status
\* and whatever text came with the block.
C4_BlockAlwaysCrisis == Blocked => CrisisAnswer

\* C4 as amended: the same when the upstream status is 2xx; a non-2xx answer is
\* passed through with its status before the block reason is looked at.
C4_BlockOn2xxCrisis ==
  /\ (Blocked /\ r.ok) => CrisisAnswer
  /\ (Blocked /\ ~r.ok) => (res.status = r.status /\ coerceCalls = 0)

\* A block that came with a well-formed reply in the text
C4_Witness ==
  /\ Blocked
  /\ r.ok
  /\ data.text.type = "string"
  /\ HoldsPlainComplete(data.text.toks)
  /\ CrisisAnswer

\* ------------------------------------------------------------------------
\* C8
\* ------------------------------------------------------------------------
\* A JSON object as the model may validly write it: ASCII-quoted, its message free
\* of unescaped ASCII double quotes (typographic marks are ordinary characters)
ValidObject(o) ==
  "message_student" \in DOMAIN o =>
    \A i \in 1..Len(o["message_student"]) : o["message_student"][i] # "quot"

\* C8: the recovery steps end in the object the model wrote: a valid JSON object,
\* bare, fenced or wrapped in prose, is answered 200 with exactly its own fields
\* plus the derived crisisFlag.
C8_WrappedObjectVerbatim ==
  (deployed = "pages" /\ Responded /\ GotText) =>
    \A i \in 1..Len(data.text.toks) :
      LET t == data.text.toks[i]
      IN (t.k = "members" /\ ValidObject(t.obj) /\ Wraps(data.text.toks, t.obj)) =>
           /\ res.status = 200
           /\ res.body =
                JObj([f \in DOMAIN t.obj \cup {"crisisFlag"} |->
                        IF f = "crisisFlag"
                        THEN "escalation" \in DOMAIN t.obj /\ t.obj["escalation"] = "crisis-988"
                        ELSE t.obj[f]])

\* ------------------------------------------------------------------------
\* C3
\* ------------------------------------------------------------------------
\* The timer's callback has run and the handler is still at an await
FiredWhilePending ==
  /\ deployed = "pages"
  /\ timeout.armed
  /\ ~timeout.pending
  /\ ~timeout.cleared
  /\ pc \in {"fetch", "json"}

\* C3: once the timer has fired while the fetch or the reading of its body is
\* pending, the signal is aborted, nothing further is taken from the upstream, and
\* the handler goes on to answer 504 and nothing else.
C3_DeadlineGives504 ==
  /\ [](FiredWhilePending => aborted)
  /\ [][aborted => (r' = r /\ data' = data)]_vars
  /\ []((aborted /\ Responded) => res.status = 504)
  /\ (FiredWhilePending ~> (Responded /\ res.status = 504))

\* The deadline fired during the reading of the body, and the answer is 504
C3_Witness ==
  /\ deployed = "pages"
  /\ aborted
  /\ r.status = 200
  /\ ~data.received
  /\ Responded
  /\ res.status = 504
  /\ res.body = ErrorBody("Upstream timeout")

\* ------------------------------------------------------------------------
\* C10
\* ------------------------------------------------------------------------
\* C10: the handler of pages/api/chat.js answers every call, never twice; when it
\* answers, the timer was never armed or clearTimeout has been called on it and it
\* is no longer due; and the signal is never aborted after the answer.
C10_OneResponseTimerCleared ==
  /\ [](res.sent <= 1)
  /\ [](Responded => ((~timeout.armed \/ timeout.cleared) /\ ~timeout.pending))
  /\ [][Responded => aborted' = aborted]_vars
  /\ (deployed = "pages" => <>(pc = "done" /\ res.sent = 1))

\* An internal fault (a string as the model's JSON) answered once, timer cleared
C10_Witness ==
  /\ deployed = "pages"
  /\ pc = "done"
  /\ res.sent = 1
  /\ res.status = 500
  /\ data.received
  /\ timeout.armed
  /\ timeout.cleared
  /\ ~aborted

====
